---------------------------- MODULE Spec2Model ----------------------------
(***************************************************************************)
(* Model of server.js: the attendance ledger (an ExcelJS workbook kept in  *)
(* memory and rewritten to attendance.xlsx after every append) and the     *)
(* voice sample directory (multer disk storage, listed by parsing file     *)
(* names).                                                                 *)
(*                                                                         *)
(* Text that the code takes apart (file names) is a sequence of one-       *)
(* character strings; values the code only copies are atomic strings.      *)
(* UNDEF stands for JavaScript's undefined.                                *)
(***************************************************************************)
EXTENDS Integers, Sequences, FiniteSets, TLC

\* ------------------------------------------------------------------ bounds
MaxReq      == 2   \* ingest requests handled in one process lifetime
MaxRestarts == 1   \* process restarts
MaxClock    == 2   \* distinct readings of the server clock
MaxUploads  == 2   \* voice uploads
MaxInFlight == 1   \* requests of each kind next to the listings

\* ------------------------------------------------------------- JS values
UNDEF == "undefined"

Reqs == 1..MaxReq

\* Values the environment can give process.env.DEVICE_API_KEY (line 27).
SecretValues == {UNDEF, "k1"}
\* Values of the x-device-key header (UNDEF: header missing).
HeaderValues == {UNDEF, "k1", "bad"}

\* event.extras: absent, present without entered_pin, present with a PIN.
NoExtras == [present |-> FALSE, entered_pin |-> UNDEF]
ExtrasValues ==
  { NoExtras,
    [present |-> TRUE, entered_pin |-> UNDEF],
    [present |-> TRUE, entered_pin |-> "4321"] }

FirstEvents ==
  [token_or_pin : {"T1"}, method : {"qr"}, extras : ExtrasValues]

\* A further event of the batch, with values no first event carries.
OtherEvent ==
  [token_or_pin |-> "T9", method |-> "pin",
   extras |-> [present |-> TRUE, entered_pin |-> "9999"]]

\* req.body of POST /api/device/event: a device id and a non-empty batch.
Bodies ==
  { [device_id |-> "D1", events |-> <<e>> \o tl] :
      e \in FirstEvents, tl \in {<<>>, <<OtherEvent>>} }

NoBody == [device_id |-> UNDEF, events |-> <<>>]
NoRequest == [key |-> UNDEF, body |-> NoBody, row |-> 0]

\* A row of the sheet as GET /api/attendance reads it back (lines 171-177).
\* A row without cells reads back as undefined in every field.
EmptyRow ==
  [timestamp |-> UNDEF, device_id |-> UNDEF, token |-> UNDEF,
   pin |-> UNDEF, method |-> UNDEF]

\* ------------------------------------------------------------------- state
VARIABLES
  DEVICE_API_KEY,  \* the configured device secret, or UNDEF
  clock,           \* the server clock (Date.now(), new Date())
  lifetime,        \* number of restarts of the process so far
  excelFile,       \* attendance.xlsx: [exists, rows]
  workbook,        \* the in-memory workbook: [sheet, keys, rows]
  initPc,          \* initExcel: "reading", "writing" or "done"
  pc,              \* per ingest request: idle, writing, landed, ok, failed, denied
  req,             \* per ingest request: its key and, while it is handled, its
                   \* body and the number of the row it added
  snap,            \* per ingest request: the table its writeFile serialises
  raced,           \* history: a writeFile was called in this lifetime while
                   \* another one was in flight
  loaded,          \* history: the number of records this process read from
                   \* the file (0 until it has read it)
  res,             \* the HTTP response sent by the latest step, or NoResponse
  voiceDir,        \* whether the voices directory exists
  voices,          \* the voices directory: file name -> chunks stored
  writer,          \* history: file name -> the upload that wrote to it last
  upPc,            \* per upload: idle, writing, done, aborted
  up               \* per upload: endpoint, form fields, time of naming, file
                   \* name, blob, chunks written so far

ledgerVars == <<DEVICE_API_KEY, lifetime, excelFile, workbook, initPc, pc, req, snap, raced,
                loaded>>
voiceVars  == <<voiceDir, voices, writer, upPc, up>>
vars == <<ledgerVars, voiceVars, clock, res>>

NoResponse == [kind |-> "none", route |-> "none"]

\* What the caller sees when an async handler's promise rejects: the source
\* installs no error handler and the handlers catch nothing, so either no
\* response is ever sent (the rejection is unhandled) or the framework's
\* default handler answers 500 with an HTML page.
Rejected(route) ==
  { [kind |-> "unanswered", route |-> route],
    [kind |-> "error", route |-> route, status |-> 500, json |-> FALSE] }

\* ------------------------------------------------------------------ ledger

\* undefined where the model holds text (a sequence of characters).
UNDEFS == <<UNDEF>>

HOLE == "hole"   \* a part of a file that no write has filled

NoUpload == [endpoint |-> UNDEF, body |-> [student_id |-> UNDEFS, type |-> UNDEFS],
             now |-> 0, name |-> <<>>, blob |-> <<>>, pos |-> 0]

\* new Date().toISOString() (line 72) for the clock readings of the model.
ISOStrings ==
  << "1970-01-01T00:00:00.001Z", "1970-01-01T00:00:00.002Z",
     "1970-01-01T00:00:00.003Z", "1970-01-01T00:00:00.004Z",
     "1970-01-01T00:00:00.005Z" >>

toISOString(t) == ISOStrings[t]

\* The workbook of line 34: no worksheet yet.
NewWorkbook == [sheet |-> FALSE, keys |-> FALSE, rows |-> <<>>]

\* Lines 40-49: a new workbook with the Attendance sheet; sheet.columns gives
\* the columns their keys (timestamp, device_id, token, pin, method) and writes
\* the header row.
CreatedWorkbook == [sheet |-> TRUE, keys |-> TRUE, rows |-> <<>>]

\* What workbook.xlsx.writeFile serialises: the header and every row that has
\* at least one cell. A row without cells has no model and is left out; column
\* keys are not part of the file.
\* A writer that puts the newest record first.
SerialiseNewestFirst(wb) ==
  LET kept == SelectSeq(wb.rows, LAMBDA row : row # EmptyRow)
  IN  [i \in 1..Len(kept) |-> kept[Len(kept) + 1 - i]]

Serialise(wb) == SelectSeq(wb.rows, LAMBDA row : row # EmptyRow)

\* workbook.xlsx.readFile (line 38): the sheet and its rows come back, the
\* column keys do not (line 43 is not run on this path).
Deserialise(fileRows) == [sheet |-> TRUE, keys |-> FALSE, rows |-> fileRows]

\* Line 75: event.extras ? event.extras.entered_pin : "".
PinOf(event) == IF event.extras.present THEN event.extras.entered_pin ELSE ""

\* The object handed to sheet.addRow (lines 71-77).
RowObject(body, now) ==
  LET event == body.events[1] IN
  [timestamp |-> toISOString(now),
   device_id |-> body.device_id,
   token     |-> event.token_or_pin,
   pin       |-> PinOf(event),
   method    |-> event.method]

\* addRow as a bug would have it: the new row is put first, moving the others.
addRowFirst(wb, obj) ==
  [wb EXCEPT !.rows = <<IF wb.keys THEN obj ELSE EmptyRow>> \o @]

\* sheet.addRow(object): a new last row; each column that has a key takes the
\* object's value under that key. Without column keys no cell is set.
addRow(wb, obj) ==
  [wb EXCEPT !.rows = Append(@, IF wb.keys THEN obj ELSE EmptyRow)]

\* Line 62: key !== DEVICE_API_KEY.
KeyRejected(key) == key # DEVICE_API_KEY

\* The state of a process that has run the module's top level: initExcel()
\* up to its first await (lines 36-55).
StartProcess(file) ==
  IF file.exists
    THEN /\ workbook' = NewWorkbook
         /\ initPc' = "reading"
    ELSE /\ workbook' = CreatedWorkbook
         /\ initPc' = "writing"

Init ==
  /\ DEVICE_API_KEY \in SecretValues
  /\ clock = 1
  /\ lifetime = 0
  /\ excelFile = [exists |-> FALSE, rows |-> <<>>]
  /\ workbook = CreatedWorkbook
  /\ initPc = "writing"
  /\ pc = [r \in Reqs |-> "idle"]
  /\ req = [r \in Reqs |-> NoRequest]
  /\ snap = [r \in Reqs |-> <<>>]
  /\ raced = FALSE
  /\ loaded = 0
  /\ res = NoResponse
  /\ voiceDir = FALSE
  /\ voices = [f \in {} |-> <<>>]
  /\ writer = [f \in {} |-> 0]
  /\ upPc = [u \in 1..MaxUploads |-> "idle"]
  /\ up = [u \in 1..MaxUploads |-> NoUpload]

\* initExcel, line 38 completes: the workbook now holds the file's table.
InitReadDone ==
  /\ initPc = "reading"
  /\ workbook' = Deserialise(excelFile.rows)
  /\ loaded' = Len(excelFile.rows)
  /\ initPc' = "done"
  /\ res' = NoResponse
  /\ UNCHANGED <<DEVICE_API_KEY, lifetime, excelFile, pc, req, snap, raced, clock, voiceVars>>

\* initExcel, line 51 completes: the empty table (header only), serialised
\* when writeFile was called, is on disk.
InitWriteLand ==
  /\ initPc = "writing"
  /\ excelFile' = [exists |-> TRUE, rows |-> <<>>]
  /\ initPc' = "done"
  /\ res' = NoResponse
  /\ UNCHANGED <<DEVICE_API_KEY, lifetime, workbook, pc, req, snap, raced, loaded, clock, voiceVars>>

\* POST /api/device/event, lines 60-79: the handler up to its await.
DeviceEvent(r) ==
  /\ pc[r] = "idle"
  /\ \A q \in 1..(r - 1) : pc[q] # "idle"   \* requests are numbered as they arrive
  /\ \E key \in HeaderValues, body \in Bodies :
       /\ IF KeyRejected(key)
            THEN /\ pc' = [pc EXCEPT ![r] = "denied"]
                 /\ req' = [req EXCEPT ![r] = [key |-> key, body |-> NoBody, row |-> 0]]
                 /\ res' = [kind |-> "error", route |-> "ingest", status |-> 401,
                            json |-> TRUE]
                 /\ UNCHANGED <<workbook, snap, raced>>
            ELSE IF ~workbook.sheet
            THEN \* line 69 yields undefined, line 71 throws a TypeError
                 /\ pc' = [pc EXCEPT ![r] = "failed"]
                 /\ req' = [req EXCEPT ![r] = [key |-> key, body |-> NoBody, row |-> 0]]
                 /\ res' \in Rejected("ingest")
                 /\ UNCHANGED <<workbook, snap, raced>>
            ELSE /\ workbook' = addRow(workbook, RowObject(body, clock))
                 /\ snap' = [snap EXCEPT ![r] = Serialise(workbook')]
                 /\ pc' = [pc EXCEPT ![r] = "writing"]
                 /\ req' = [req EXCEPT ![r] = [key |-> key, body |-> body,
                                                row |-> Len(workbook'.rows)]]
                 /\ raced' = (raced \/ initPc = "writing"
                                     \/ \E q \in Reqs : pc[q] = "writing")
                 /\ res' = NoResponse
  /\ UNCHANGED <<DEVICE_API_KEY, lifetime, excelFile, initPc, loaded, clock, voiceVars>>

\* The writeFile of line 79 completes: the table it serialised is the file.
PersistLand(r) ==
  /\ pc[r] = "writing"
  /\ excelFile' = [exists |-> TRUE, rows |-> snap[r]]
  /\ pc' = [pc EXCEPT ![r] = "landed"]
  /\ res' = NoResponse
  /\ UNCHANGED <<DEVICE_API_KEY, lifetime, workbook, initPc, req, snap, raced, loaded, clock, voiceVars>>

\* The writeFile of line 79 rejects (the file cannot be written).
PersistFail(r) ==
  /\ pc[r] = "writing"
  /\ pc' = [pc EXCEPT ![r] = "failed"]
  /\ req' = [req EXCEPT ![r].body = NoBody, ![r].row = 0]
  /\ snap' = [snap EXCEPT ![r] = <<>>]
  /\ res' \in Rejected("ingest")
  /\ UNCHANGED <<DEVICE_API_KEY, lifetime, excelFile, workbook, initPc, raced, loaded, clock, voiceVars>>

\* Lines 81-85: the handler resumes after the await and answers.
DeviceEventRespond(r) ==
  /\ pc[r] = "landed"
  /\ pc' = [pc EXCEPT ![r] = "ok"]
  /\ res' = [kind |-> "ok", route |-> "ingest", status |-> 200,
             results |-> << [ok |-> TRUE, message |-> "Attendance saved to Excel"] >>]
  /\ req' = [req EXCEPT ![r].body = NoBody, ![r].row = 0]   \* the request is over
  /\ snap' = [snap EXCEPT ![r] = <<>>]
  /\ UNCHANGED <<DEVICE_API_KEY, lifetime, excelFile, workbook, initPc, raced, loaded, clock, voiceVars>>

\* GET /api/attendance, lines 166-180. Without the sheet line 169 throws.
GetAttendance ==
  /\ IF workbook.sheet
       THEN res' = [kind |-> "ok", route |-> "attendance", status |-> 200,
                    rows |-> workbook.rows]
       ELSE res' \in Rejected("attendance")
  /\ UNCHANGED <<ledgerVars, voiceVars, clock>>

\* The server clock advances.
Tick ==
  /\ clock < MaxClock
  /\ clock' = clock + 1
  /\ res' = NoResponse
  /\ UNCHANGED <<ledgerVars, voiceVars>>

\* The process stops and is started again: memory and the requests in flight
\* are gone, the file stays, the module's top level runs again.
Restart ==
  /\ lifetime < MaxRestarts
  /\ lifetime' = lifetime + 1
  /\ StartProcess(excelFile)
  /\ pc' = [r \in Reqs |-> "idle"]
  /\ req' = [r \in Reqs |-> NoRequest]
  /\ snap' = [r \in Reqs |-> <<>>]
  /\ raced' = FALSE
  /\ loaded' = 0
  /\ res' = NoResponse
  /\ upPc' = [u \in DOMAIN upPc |-> IF upPc[u] = "writing" THEN "aborted" ELSE upPc[u]]
  /\ UNCHANGED <<DEVICE_API_KEY, excelFile, clock, voiceDir, voices, writer, up>>

LedgerNext ==
  \/ InitReadDone
  \/ InitWriteLand
  \/ \E r \in Reqs : DeviceEvent(r)
  \/ \E r \in Reqs : PersistLand(r)
  \/ \E r \in Reqs : PersistFail(r)
  \/ \E r \in Reqs : DeviceEventRespond(r)
  \/ GetAttendance
  \/ Tick
  \/ Restart

LedgerSpec == Init /\ [][LedgerNext]_vars

\* ------------------------------------------------------------ voice samples

Uploads == 1..MaxUploads

UNDERSCORE == "_"
ENROLL  == <<"e", "n", "r", "o", "l", "l">>
CHECK   == <<"c", "h", "e", "c", "k">>
UNKNOWN == <<"u", "n", "k", "n", "o", "w", "n">>
WEBM    == <<".", "w", "e", "b", "m">>
VOICES_URL == <<"/", "v", "o", "i", "c", "e", "s", "/">>

DigitChars == <<"0", "1", "2", "3", "4", "5", "6", "7", "8", "9">>

\* Values of the student_id form field as multer has it in req.body when the
\* file part arrives. UNDEFS: the field is absent or follows the file part.
StudentIds == { UNDEFS, <<"S", "4", "2">>, <<"a", "_", "b">> }
\* Values of a type form field; the documented form carries none (UNDEFS).
TypeFields == { UNDEFS, ENROLL }
Endpoints == { "enroll", "check" }
\* The audio of an upload, as the chunks in which its stream is written.
Blobs == { <<"a1", "a2">>, <<"b1">> }

\* JavaScript truthiness of a form field: undefined and "" are falsy.
Truthy(v) == v # UNDEFS /\ v # <<>>

\* `${n}` for a non-negative integer: its decimal digits.
RECURSIVE Decimal(_)
Decimal(n) ==
  IF n < 10 THEN <<DigitChars[n + 1]>>
  ELSE Decimal(n \div 10) \o <<DigitChars[(n % 10) + 1]>>

\* storage.filename, lines 99-104.
filename(body, now) ==
  LET studentId == IF Truthy(body.student_id) THEN body.student_id ELSE UNKNOWN
      type      == IF Truthy(body.type) THEN body.type ELSE CHECK
      timestamp == now
  IN  studentId \o <<UNDERSCORE>> \o type \o <<UNDERSCORE>> \o Decimal(timestamp) \o WEBM

\* s.endsWith(suffix)
endsWith(s, suffix) ==
  /\ Len(s) >= Len(suffix)
  /\ SubSeq(s, Len(s) - Len(suffix) + 1, Len(s)) = suffix

\* s.replace(pat, ''): the first occurrence of pat is removed.
replaceFirst(s, pat) ==
  LET starts == { i \in 1..(Len(s) - Len(pat) + 1) : SubSeq(s, i, i + Len(pat) - 1) = pat }
  IN  IF starts = {} THEN s
      ELSE LET i == CHOOSE k \in starts : \A j \in starts : k <= j
           IN  SubSeq(s, 1, i - 1) \o SubSeq(s, i + Len(pat), Len(s))

\* s.split(sep) for a one-character separator.
RECURSIVE split(_, _)
split(s, sep) ==
  LET seps == { i \in 1..Len(s) : s[i] = sep }
  IN  IF seps = {} THEN <<s>>
      ELSE LET i == CHOOSE k \in seps : \A j \in seps : k <= j
           IN  <<SubSeq(s, 1, i - 1)>> \o split(SubSeq(s, i + 1, Len(s)), sep)

\* parts[i] (0-based in the source, 1-based here): undefined beyond the end.
Part(parts, i) == IF i <= Len(parts) THEN parts[i] ELSE UNDEFS

\* Number(text) for the texts of the model: a digit string is its value,
\* anything else is NaN.
IsDigits(text) == Len(text) > 0 /\ \A i \in 1..Len(text) : \E d \in 1..10 : DigitChars[d] = text[i]

RECURSIVE Number(_)
Number(text) ==
  IF Len(text) = 0 THEN 0
  ELSE 10 * Number(SubSeq(text, 1, Len(text) - 1))
       + ((CHOOSE d \in 1..10 : DigitChars[d] = text[Len(text)]) - 1)

\* Lines 149 and 156: new Date(Number(parts[2])).toISOString() throws a
\* RangeError for an invalid date, which Number gives for a non-number.
TimestampThrows(f) ==
  LET parts == split(replaceFirst(f, WEBM), UNDERSCORE)
  IN  Truthy(Part(parts, 3)) /\ ~IsDigits(Part(parts, 3))

\* Lines 144-158: the descriptor of one file.
Descriptor(f) ==
  LET parts == split(replaceFirst(f, WEBM), UNDERSCORE)
      p2    == Part(parts, 3)
  IN  [student_id |-> IF Truthy(Part(parts, 1)) THEN Part(parts, 1) ELSE UNKNOWN,
       type       |-> IF Truthy(Part(parts, 2)) THEN Part(parts, 2) ELSE UNKNOWN,
       filename   |-> f,
       url        |-> VOICES_URL \o f,
       timestamp  |-> IF Truthy(p2) THEN toISOString(Number(p2)) ELSE "null"]

\* A write of one chunk through a descriptor whose offset is pos chunks: the
\* chunk replaces what the file holds there, or lengthens the file.
WriteAt(content, pos, chunk) ==
  IF pos < Len(content)
    THEN [content EXCEPT ![pos + 1] = chunk]
    ELSE content \o [k \in 1..(pos - Len(content)) |-> HOLE] \o <<chunk>>

\* POST /api/voice/enroll and /api/voice/check, the multer part (lines 91-107):
\* the directory is made, the name is chosen and the file is opened for
\* writing, which empties a file of that name.
UploadStart(u) ==
  /\ upPc[u] = "idle"
  /\ \A q \in 1..(u - 1) : upPc[q] # "idle"
  /\ \E endpoint \in Endpoints, sid \in StudentIds, type \in TypeFields, blob \in Blobs :
       LET body == [student_id |-> sid, type |-> type]
           name == filename(body, clock)
       IN  /\ up' = [up EXCEPT ![u] = [endpoint |-> endpoint, body |-> body,
                                       now |-> clock, name |-> name,
                                       blob |-> blob, pos |-> 0]]
           /\ voices' = [f \in DOMAIN voices \cup {name} |->
                           IF f = name THEN <<>> ELSE voices[f]]
           /\ writer' = [f \in DOMAIN voices \cup {name} |->
                           IF f = name THEN u ELSE writer[f]]
  /\ voiceDir' = TRUE
  /\ upPc' = [upPc EXCEPT ![u] = "writing"]
  /\ res' = NoResponse
  /\ UNCHANGED <<ledgerVars, clock>>

\* The upload's stream writes its next chunk through its own descriptor.
UploadWrite(u) ==
  /\ upPc[u] = "writing"
  /\ up[u].pos < Len(up[u].blob)
  /\ voices' = [voices EXCEPT ![up[u].name] =
                  WriteAt(@, up[u].pos, up[u].blob[up[u].pos + 1])]
  /\ writer' = [writer EXCEPT ![up[u].name] = u]
  /\ up' = [up EXCEPT ![u].pos = @ + 1]
  /\ res' = NoResponse
  /\ UNCHANGED <<ledgerVars, clock, voiceDir, upPc>>

\* The whole blob is written; the route handler (lines 112-119, 124-131)
\* answers with req.file.filename.
UploadFinish(u) ==
  /\ upPc[u] = "writing"
  /\ up[u].pos = Len(up[u].blob)
  /\ upPc' = [upPc EXCEPT ![u] = "done"]
  /\ res' = [kind |-> "ok", route |-> "upload", status |-> 200, to |-> u, ok |-> TRUE,
             message |-> IF up[u].endpoint = "enroll"
                           THEN "Voice enrolled and saved"
                           ELSE "Voice sample saved for review",
             file |-> up[u].name]
  /\ UNCHANGED <<ledgerVars, clock, voiceDir, voices, writer, up>>

\* A listing that makes the directory, as the upload's destination callback
\* does, instead of only looking for it.
GetVoicesMkdir ==
  /\ res' = IF ~voiceDir
              THEN [kind |-> "ok", route |-> "voices", status |-> 200, list |-> {}]
            ELSE IF \E f \in DOMAIN voices : endsWith(f, WEBM) /\ TimestampThrows(f)
              THEN [kind |-> "error", route |-> "voices", status |-> 500, json |-> FALSE]
            ELSE [kind |-> "ok", route |-> "voices", status |-> 200,
                  list |-> { Descriptor(f) : f \in { g \in DOMAIN voices : endsWith(g, WEBM) } }]
  /\ voiceDir' = TRUE
  /\ UNCHANGED <<ledgerVars, voices, writer, upPc, up, clock>>

\* GET /api/voices, lines 136-161. A throw in the handler is answered by the
\* framework's default error handler.
GetVoices ==
  /\ res' = IF ~voiceDir
              THEN [kind |-> "ok", route |-> "voices", status |-> 200, list |-> {}]
            ELSE IF \E f \in DOMAIN voices : endsWith(f, WEBM) /\ TimestampThrows(f)
              THEN [kind |-> "error", route |-> "voices", status |-> 500, json |-> FALSE]
            ELSE [kind |-> "ok", route |-> "voices", status |-> 200,
                  list |-> { Descriptor(f) : f \in { g \in DOMAIN voices : endsWith(g, WEBM) } }]
  /\ UNCHANGED <<ledgerVars, voiceVars, clock>>

VoiceNext ==
  \/ \E u \in Uploads : UploadStart(u)
  \/ \E u \in Uploads : UploadWrite(u)
  \/ \E u \in Uploads : UploadFinish(u)
  \/ GetVoices
  \/ Tick

VoiceSpec == Init /\ [][VoiceNext]_vars

Next == LedgerNext \/ VoiceNext

Spec == Init /\ [][Next]_vars

\* The two listings next to ingest requests and uploads in flight: the whole
\* server with MaxInFlight requests of each kind and a clock that stands still.
InFlight == 1..MaxInFlight

ListingNext ==
  \/ InitReadDone
  \/ InitWriteLand
  \/ \E r \in InFlight : DeviceEvent(r)
  \/ \E r \in InFlight : PersistLand(r)
  \/ \E r \in InFlight : PersistFail(r)
  \/ \E r \in InFlight : DeviceEventRespond(r)
  \/ \E u \in InFlight : UploadStart(u)
  \/ \E u \in InFlight : UploadWrite(u)
  \/ \E u \in InFlight : UploadFinish(u)
  \/ GetAttendance
  \/ GetVoices
  \/ Restart

ListingSpec == Init /\ [][ListingNext]_vars

\* ------------------------------------------------------------------ claims

IsPrefix(a, b) == Len(a) <= Len(b) /\ SubSeq(b, 1, Len(a)) = a

\* The ingest request r takes the step named by the two control states.
Steps(r, from, to) == pc[r] = from /\ pc'[r] = to

\* The row matches the payload's device id and first event.
RowMatches(row, body) ==
  LET event == body.events[1] IN
  /\ row.device_id = body.device_id
  /\ row.token = event.token_or_pin
  /\ row.method = event.method
  /\ event.extras.present => row.pin = event.extras.entered_pin

\* C1: every ingest request with the correct key and a non-empty batch is
\* handled to completion, and when its response is sent the ledger holds
\* exactly one record more than when the request arrived, that record carrying
\* the payload's device_id and the first event's token_or_pin, method and
\* entered_pin.
C1_IngestAddsOneMatchingRecord ==
  [][\A r \in Reqs :
       /\ ~Steps(r, "idle", "failed")
       /\ Steps(r, "landed", "ok") =>
            /\ Len(workbook'.rows) = req[r].row
            /\ RowMatches(workbook'.rows[req[r].row], req[r].body)]_vars

\* The x-device-key header is missing or differs from the configured secret.
MissingOrIncorrect(key) == key = UNDEF \/ key # DEVICE_API_KEY

\* C2: an ingest request whose key is missing or incorrect is answered 401 and
\* leaves the in-memory ledger and the ledger file as they were, whatever the
\* configured secret, an unset secret included.
C2_BadKeyIs401AndChangesNothing ==
  [][\A r \in Reqs :
       (pc[r] = "idle" /\ pc'[r] # "idle" /\ MissingOrIncorrect(req'[r].key)) =>
         /\ res'.kind = "error" /\ res'.status = 401
         /\ workbook' = workbook
         /\ excelFile' = excelFile]_vars

\* Every ingest request the process has accepted was answered with success.
AllAnsweredOk ==
  /\ initPc = "done"
  /\ \A r \in Reqs : pc[r] \in {"idle", "ok", "denied"}
  /\ \E r \in Reqs : pc[r] = "ok"

\* C3: once the ingest requests have each returned success, loading the ledger
\* from the file yields the records of the in-memory ledger in the same order.
\* Stated for the runs in which no two writes of the file overlapped, the case
\* the round-trip sentence of the specification is about.
C3_RoundTripAfterSuccess ==
  (AllAnsweredOk /\ ~raced) => Deserialise(excelFile.rows).rows = workbook.rows

\* The file holds the row that memory holds under this row number.
FileHasRow(file, wb, n) ==
  n \in 1..Len(file.rows) /\ n \in 1..Len(wb.rows) /\ file.rows[n] = wb.rows[n]

\* C4: when an ingest request's success response is sent, the ledger file holds
\* the record that request appended. Stated for the runs in which no two
\* writes of the file overlapped.
C4_PersistedBeforeSuccess ==
  [][\A r \in Reqs :
       (Steps(r, "landed", "ok") /\ ~raced) =>
          FileHasRow(excelFile', workbook', req[r].row)]_vars

\* The sample type of an endpoint, as text.
EndpointType(endpoint) == IF endpoint = "enroll" THEN ENROLL ELSE CHECK

\* name is S_<type>_<digits>.webm
HasForm(name, S, type) ==
  \E t \in 0..MaxClock :
    name = S \o <<UNDERSCORE>> \o type \o <<UNDERSCORE>> \o Decimal(t) \o WEBM

\* C5: an upload with student_id S is stored under, and answered with, the
\* name S_enroll_<digits>.webm on the enroll endpoint and S_check_<digits>.webm
\* on the check endpoint, whatever other form fields it carries.
C5_TypeFixedByEndpoint ==
  (res.kind = "ok" /\ res.route = "upload") =>
     LET u == res.to IN
     Truthy(up[u].body.student_id) =>
       /\ HasForm(res.file, up[u].body.student_id, EndpointType(up[u].endpoint))
       /\ res.file \in DOMAIN voices

WebmFiles == { f \in DOMAIN voices : endsWith(f, WEBM) }

\* C6: GET /api/voices never fails and returns one descriptor per .webm file
\* of the directory, with a null timestamp where the third segment of the name
\* is not a number.
C6_VoiceListingNeverFails ==
  res.route = "voices" =>
     /\ res.kind = "ok"
     /\ Cardinality(res.list) = Cardinality(WebmFiles)

\* C7: an ingest request with the correct key whose append step fails is
\* answered with a server error carrying a JSON error body.
C7_AppendFailureIsJsonServerError ==
  [][\A r \in Reqs :
       (pc[r] # "failed" /\ pc'[r] = "failed") =>
          /\ res'.kind = "error"
          /\ res'.status = 500
          /\ res'.json]_vars

\* C8: within one process lifetime every step leaves the in-memory ledger with
\* the records it had, in their places: the sequence before the step is a
\* prefix of the sequence after it.
C8_LedgerAppendOnly ==
  [][lifetime' = lifetime => IsPrefix(workbook.rows, workbook'.rows)]_vars

\* Witness of C8: a ledger loaded from the file to which a record was appended
\* while another append's write was in flight.
C8_Witness ==
  /\ lifetime = 1
  /\ Len(workbook.rows) >= 3
  /\ \E r \in Reqs : pc[r] = "writing"
  /\ \E r \in Reqs : pc[r] = "ok"

\* C9: GET /api/attendance never fails: in every state, the interval before
\* initExcel has finished included, it answers with the records of the ledger
\* in insertion order.
C9_AttendanceListingNeverFails ==
  res.route = "attendance" => (res.kind = "ok" /\ res.rows = workbook.rows)

\* C10: one upload through the enroll endpoint into an empty directory, then a
\* listing: exactly one descriptor, whose student_id and type are the submitted
\* student_id and "enroll".
C10_VoiceRoundTrip ==
  (/\ res.route = "voices"
   /\ upPc[1] = "done" /\ \A u \in Uploads \ {1} : upPc[u] = "idle"
   /\ up[1].endpoint = "enroll" /\ Truthy(up[1].body.student_id)) =>
     /\ res.kind = "ok"
     /\ \E d \in res.list :
          /\ res.list = {d}
          /\ d.student_id = up[1].body.student_id
          /\ d.type = ENROLL

\* The first event provides no entered PIN: no extras, or extras without one.
NoEnteredPin(body) ==
  LET event == body.events[1] IN
  ~event.extras.present \/ event.extras.entered_pin = UNDEF

\* C11: when an accepted ingest request's first event provides no entered PIN,
\* the record it appends has the empty string as its pin.
C11_MissingPinIsEmptyString ==
  [][\A r \in Reqs :
       (Steps(r, "idle", "writing") /\ NoEnteredPin(req'[r].body)) =>
          workbook'.rows[req'[r].row].pin = ""]_vars

\* The values of the batch's events after the first.
LaterValues(body) ==
  UNION { {body.events[i].token_or_pin, body.events[i].method,
           body.events[i].extras.entered_pin} : i \in 2..Len(body.events) }

RowValues(row) == {row.timestamp, row.device_id, row.token, row.pin, row.method}

\* C12: an ingest request with the correct key and a batch of k >= 1 events
\* makes the ledger grow by exactly one record, built from events[0]; no value
\* of a later event is in the ledger; the response's results list has exactly
\* one element, with ok true.
C12_OnlyFirstEventProcessed ==
  [][\A r \in Reqs :
       /\ ~Steps(r, "idle", "failed")
       /\ Steps(r, "idle", "writing") =>
            /\ workbook'.rows = Append(workbook.rows, RowObject(req'[r].body, clock))
            /\ \A i \in 1..Len(workbook'.rows) :
                 RowValues(workbook'.rows[i]) \cap (LaterValues(req'[r].body) \ {UNDEF}) = {}
       /\ Steps(r, "landed", "ok") =>
            /\ Len(res'.results) = 1
            /\ res'.results[1].ok]_vars

ListingRoutes == {"attendance", "voices"}

\* C13: the two listing endpoints are pure reads: a step that answers
\* GET /api/attendance or GET /api/voices leaves the in-memory ledger, the
\* durable file and the voice directory (its presence, its set of files and
\* their contents) as they were, in every state, requests in flight included.
C13_ListingsArePureReads ==
  [][res'.route \in ListingRoutes =>
       /\ workbook' = workbook
       /\ excelFile' = excelFile
       /\ voiceDir' = voiceDir
       /\ voices' = voices]_vars

\* A listing has answered while an ingest request is waiting for its write and
\* an upload is writing its file.
C13_Witness ==
  /\ res.route \in ListingRoutes
  /\ res.kind = "ok"
  /\ \E r \in InFlight : pc[r] = "writing"
  /\ \E u \in InFlight : upPc[u] = "writing"
  /\ workbook.rows # <<>>

\* The uploads that have succeeded.
Done == { u \in Uploads : upPc[u] = "done" }

\* The (student_id, type, epoch-millisecond) triple of an upload, with the
\* defaults of lines 100-101 for the fields it leaves out.
Triple(u) ==
  << IF Truthy(up[u].body.student_id) THEN up[u].body.student_id ELSE UNKNOWN,
     IF Truthy(up[u].body.type) THEN up[u].body.type ELSE CHECK,
     up[u].now >>

\* C14: once every upload taken up has succeeded, the voice directory holds
\* exactly one file per distinct (student_id, type, epoch-millisecond) triple
\* of those uploads, each file holds the blob of the upload that wrote to it
\* last, and uploads with distinct triples have distinct files.
C14_CollideOnlyOnSameName ==
  (\A u \in Uploads : upPc[u] \in {"idle", "done"}) =>
     /\ Cardinality(DOMAIN voices) = Cardinality({ Triple(u) : u \in Done })
     /\ \A f \in DOMAIN voices :
          /\ writer[f] \in Done
          /\ up[writer[f]].name = f
          /\ voices[f] = up[writer[f]].blob
     /\ \A u, v \in Done : Triple(u) # Triple(v) => up[u].name # up[v].name

TimeOf(iso) == CHOOSE t \in 1..Len(ISOStrings) : ISOStrings[t] = iso

\* C16: the step of an accepted ingest request that appends a record gives it
\* the server's time of that step as timestamp, whatever the payload holds,
\* and (the clock never going back) the records appended in the current
\* process lifetime carry non-decreasing timestamps in ledger order.
C16_ServerTimestampsInOrder ==
  [][\A r \in Reqs :
       Steps(r, "idle", "writing") =>
          LET rows == workbook'.rows
              n    == Len(rows)
          IN  /\ rows[n].timestamp = toISOString(clock)
              /\ \A i \in (loaded + 1)..(n - 1) :
                   /\ rows[i].timestamp # UNDEF
                   /\ TimeOf(rows[i].timestamp) <= TimeOf(rows[n].timestamp)]_vars
=============================================================================
